---- MODULE Spec2Model ----
(***************************************************************************)
(* A model of the two scripts of YouTube-Transcript-Generator:             *)
(*   1-youtube_video_info_extractor.py  (the Metadata Collector)           *)
(*   2-openai_transcript_generator.py   (the Batch Transcriber)            *)
(* File names, URLs and identifiers are strings, and the substring,        *)
(* suffix and replace operations of the scripts are computed on them.      *)
(***************************************************************************)
EXTENDS Integers, Sequences, FiniteSets, TLC

VARIABLES
    \* ---- Batch Transcriber ----
    df,              \* the DataFrame read from videos_info.csv
    start_video_id,  \* the configured start identifier
    files,           \* the working directory: file name -> content
    pc,              \* position of the Transcriber's __main__
    ids_to_transcribe,
    i,               \* position of the for loop in ids_to_transcribe (1-based)
    file_path,       \* local of get_OpenAI_transcript between download and transcription
    st,              \* per position of ids_to_transcribe: the item's processing state
    attempts,        \* per position: number of ydl.download calls made for it
    cleanups,        \* number of delete_mp3_files calls of the current run
    files0,          \* the working directory when the current run started
    run,             \* number of the current Transcriber run
    \* ---- Metadata Collector ----
    cpc,             \* position of scrape_and_write_video_info
    input_rows,      \* rows of the input file video_url_list.csv
    urls,            \* result of read_urls_from_csv
    number,          \* enumerate counter of the scrape loop
    video_info_list, \* records scraped so far in this run
    csv,             \* the output file videos_info.csv, a sequence of rows
    crun             \* number of the current Collector run

tvars == <<df, start_video_id, files, pc, ids_to_transcribe, i, file_path,
           st, attempts, cleanups, files0, run>>
cvars == <<cpc, input_rows, urls, number, video_info_list, csv, crun>>
vars == <<tvars, cvars>>

----------------------------------------------------------------------------
\* Bounds of the model

MaxRows == 3        \* rows of the interchange table
MaxRuns == 2        \* Transcriber runs on the same table and directory
MaxUrls == 2        \* rows of the Collector's input file
MaxCollectorRuns == 2

----------------------------------------------------------------------------
\* Python string operations

\* sub in s
Contains(s, sub) ==
    \E k \in 1..(Len(s) - Len(sub) + 1) : SubSeq(s, k, k + Len(sub) - 1) = sub

\* s.endswith(suf)
EndsWith(s, suf) ==
    /\ Len(s) >= Len(suf)
    /\ SubSeq(s, Len(s) - Len(suf) + 1, Len(s)) = suf

\* s.replace(old, new): every non-overlapping occurrence, left to right
RECURSIVE Replace(_, _, _)
Replace(s, old, new) ==
    IF Len(s) < Len(old) THEN s
    ELSE IF SubSeq(s, 1, Len(old)) = old
         THEN new \o Replace(SubSeq(s, Len(old) + 1, Len(s)), old, new)
         ELSE SubSeq(s, 1, 1) \o Replace(SubSeq(s, 2, Len(s)), old, new)

\* the characters str.strip() removes (str.isspace) up to U+00FF: space, \n,
\* \t, \r, \f, \x0b, \x1c-\x1f, \x85 and \xa0; the Unicode spaces beyond U+00FF
\* (U+1680, U+2000-U+200A, U+2028, U+2029, U+202F, U+205F, U+3000) cannot be
\* written in a string of this module and occur in none of its inputs
Whitespace == {" ", "\n", "\t", "\r", "\f", "", "", "", "", "", "", " "}

\* s.strip()
RECURSIVE Strip(_)
Strip(s) ==
    IF Len(s) = 0 THEN s
    ELSE IF SubSeq(s, 1, 1) \in Whitespace THEN Strip(SubSeq(s, 2, Len(s)))
    ELSE IF SubSeq(s, Len(s), Len(s)) \in Whitespace
         THEN Strip(SubSeq(s, 1, Len(s) - 1))
         ELSE s

\* s.find(sub) + 1: the 1-based place of the first occurrence, 0 if none
Find(s, sub) ==
    LET at == {k \in 1..(Len(s) - Len(sub) + 1) : SubSeq(s, k, k + Len(sub) - 1) = sub}
    IN IF at = {} THEN 0 ELSE CHOOSE k \in at : \A m \in at : k <= m

\* s.split(sep)[0]: what precedes the first separator
SplitFirst(s, sep) ==
    IF Find(s, sep) = 0 THEN s ELSE SubSeq(s, 1, Find(s, sep) - 1)

\* s.split(sep)[-1]: what follows the last separator, the separators being
\* found left to right without overlap
RECURSIVE SplitLast(_, _)
SplitLast(s, sep) ==
    IF Find(s, sep) = 0 THEN s
    ELSE SplitLast(SubSeq(s, Find(s, sep) + Len(sep), Len(s)), sep)

----------------------------------------------------------------------------
\* The Batch Transcriber: 2-openai_transcript_generator.py

\* pandas reads an empty field as NaN; the missing value is modelled by the
\* empty string, which is never an identifier.
NaN == ""

VideoIDs == {"k", "q"}
\* start identifiers: none, one of the table's, one the table never holds
StartIDs == {"", "k", "q", "z"}
\* titles and source containers the downloader reports for a video; the
\* audio-only formats "bestaudio" selects on YouTube are webm and m4a
Titles == {"T"}
Exts == {"webm", "m4a"}
\* texts the transcription model returns
RawTexts == {" a\nb\n"}
\* files the working directory may hold before the first run
OldFiles == {"o.mp3", "T q.txt"}

AllColumns == {"Number", "Video ID", "URL"}

SeqsUpTo(S, n) == UNION {[1..m -> S] : m \in 0..n}

\* pd.isnull
isnull(v) == v = NaN

\* df[df["Video ID"] == start_video_id].index : the 0-based labels of the
\* rows whose identifier equals start_video_id (NaN equals nothing)
MatchingIndex(vid, start) ==
    {ix \in 0..(Len(vid) - 1) : ~isnull(vid[ix + 1]) /\ vid[ix + 1] = start}

SetMin(S) == CHOOSE m \in S : \A n \in S : m <= n
SetMax(S) == CHOOSE m \in S : \A n \in S : m >= n

\* .index[0]
FirstIndexLast(S) == SetMax(S)
FirstIndex(S) == SetMin(S)

\* if index >= start_index
RowSelectedStrict(index, start_index) == index > start_index
RowSelected(index, start_index) == index >= start_index

\* the for loop over df.iterrows()
RECURSIVE IterRows(_, _, _, _)
IterRows(vid, index, start_index, acc) ==
    IF index >= Len(vid) THEN acc
    ELSE IterRows(vid, index + 1, start_index,
            IF RowSelected(index, start_index) /\ ~isnull(vid[index + 1])
            THEN Append(acc, vid[index + 1])
            ELSE acc)

\* videos_to_transcribe(df, start_video_id): the list returned, or the
\* exception raised
videos_to_transcribe(d, start) ==
    IF "Video ID" \in d.columns
    THEN IF start # "" /\ Len(d.vid) # 0
         THEN IF MatchingIndex(d.vid, start) = {}
              THEN [raised |-> "IndexError", ids |-> <<>>]
              ELSE [raised |-> "",
                    ids |-> IterRows(d.vid, 0,
                               FirstIndex(MatchingIndex(d.vid, start)), <<>>)]
         ELSE [raised |-> "", ids |-> IterRows(d.vid, 0, 0, <<>>)]
    ELSE [raised |-> "", ids |-> <<>>]

\* os.listdir('.')
listdir == DOMAIN files

\* any(video_id in file_name for file_name in os.listdir('.'))
AlreadyDoneNever(video_id) == FALSE
AlreadyDone(video_id) == \E file_name \in listdir : Contains(file_name, video_id)

\* outtmpl "%(title)s {video_id}.%(ext)s"
outtmplTitleOnly(title, video_id, ext) == title \o "." \o ext
outtmpl(title, video_id, ext) == title \o " " \o video_id \o "." \o ext

\* the file system after writing content to name (open(name, "w"))
WriteFile(fs, name, content) ==
    [n \in DOMAIN fs \cup {name} |-> IF n = name THEN content ELSE fs[n]]

\* the file system after os.remove of every name in S
RemoveFiles(fs, S) == [n \in DOMAIN fs \ S |-> fs[n]]

\* the tables pd.read_csv can produce
Tables ==
    {[columns |-> AllColumns, vid |-> v] : v \in SeqsUpTo(VideoIDs \cup {NaN}, MaxRows)}
    \cup
    {[columns |-> AllColumns \ {"Video ID"}, vid |-> [k \in 1..m |-> NaN]] :
        m \in 0..MaxRows}

\* the errors of the downloader: yt_dlp.utils.ExtractorError and
\* yt_dlp.utils.DownloadError
DownloaderErrors == {"ExtractorError", "DownloadError"}

Running == {"start", "item", "download", "extract", "transcribe"}
\* the exceptions that end the script: IndexError of line 143, and the
\* downloader's errors raised outside the try statement
Crashed == {"IndexError"} \cup DownloaderErrors
Ended == {"done"} \cup Crashed

TInit ==
    /\ df \in Tables
    /\ start_video_id \in StartIDs
    /\ \E S \in SUBSET OldFiles : files = [n \in S |-> "old"]
    /\ pc = "start"
    /\ ids_to_transcribe = <<>>
    /\ i = 1
    /\ file_path = ""
    /\ st = <<>>
    /\ attempts = <<>>
    /\ cleanups = 0
    /\ files0 = files
    /\ run = 1

\* __main__, lines 179-182: read the table and resolve the identifiers
Resolve ==
    /\ pc = "start"
    /\ LET r == videos_to_transcribe(df, start_video_id) IN
       IF r.raised # ""
       THEN /\ pc' = r.raised
            /\ UNCHANGED <<ids_to_transcribe, st, attempts>>
       ELSE /\ pc' = "item"
            /\ ids_to_transcribe' = r.ids
            /\ st' = [k \in 1..Len(r.ids) |-> "pending"]
            /\ attempts' = [k \in 1..Len(r.ids) |-> 0]
    /\ UNCHANGED <<df, start_video_id, files, i, file_path, cleanups, files0, run, cvars>>

InLoop == pc = "item" /\ i <= Len(ids_to_transcribe)

\* get_OpenAI_transcript, lines 75-78: some file name contains the identifier
SkipAlreadyDone ==
    /\ InLoop
    /\ AlreadyDone(ids_to_transcribe[i])
    /\ st' = [st EXCEPT ![i] = "already-done"]
    /\ i' = i + 1
    /\ UNCHANGED <<df, start_video_id, files, pc, ids_to_transcribe, file_path,
                   attempts, cleanups, files0, run, cvars>>

\* get_OpenAI_transcript, lines 80-97: no file name contains the identifier,
\* and ydl.download([url]) is called; the call blocks until the downloader
\* is done
StartDownload ==
    /\ InLoop
    /\ ~AlreadyDone(ids_to_transcribe[i])
    /\ attempts' = [attempts EXCEPT ![i] = @ + 1]
    /\ pc' = "download"
    /\ UNCHANGED <<df, start_video_id, files, ids_to_transcribe, i, file_path,
                   st, cleanups, files0, run, cvars>>

\* line 97: ydl.download returns; the FFmpegExtractAudio postprocessor has
\* left "<title> <id>.mp3"
DownloadOk ==
    /\ pc = "download"
    /\ \E title \in Titles :
        files' = WriteFile(files, outtmpl(title, ids_to_transcribe[i], "mp3"), "audio")
    /\ st' = [st EXCEPT ![i] = "downloaded"]
    /\ pc' = "extract"
    /\ UNCHANGED <<df, start_video_id, ids_to_transcribe, i, file_path, attempts,
                   cleanups, files0, run, cvars>>

\* what the downloader has on disk when it stops inside ydl.download:
\* nothing yet, the partial download "<name>.<ext>.part", or the downloaded
\* container "<name>.<ext>" not yet converted to mp3
PartialDownloads(video_id) ==
    {<<>>}
    \cup {<<outtmpl(title, video_id, ext) \o ".part">> : title \in Titles, ext \in Exts}
    \cup {<<outtmpl(title, video_id, ext)>> : title \in Titles, ext \in Exts}

\* lines 96-103: ydl.download raises an access-restriction error or a generic
\* download error; both except clauses print and return, and the loop of
\* __main__ goes on with the next identifier
DownloadFails ==
    /\ pc = "download"
    /\ \E e \in DownloaderErrors, left \in PartialDownloads(ids_to_transcribe[i]) :
        files' = IF left = <<>> THEN files ELSE WriteFile(files, left[1], "audio")
    /\ st' = [st EXCEPT ![i] = "download-failed"]
    /\ i' = i + 1
    /\ pc' = "item"
    /\ UNCHANGED <<df, start_video_id, ids_to_transcribe, file_path,
                   attempts, cleanups, files0, run, cvars>>

\* lines 106-108: ydl.extract_info(url, download=False), a second request to
\* the downloader, and the path prepare_filename gives for its answer, with
\* the container's extension replaced
PrepareFilename ==
    /\ pc = "extract"
    /\ \E title \in Titles, ext \in Exts :
        file_path' = Replace(Replace(outtmpl(title, ids_to_transcribe[i], ext),
                                     ".webm", ".mp3"), ".m4a", ".mp3")
    /\ pc' = "transcribe"
    /\ UNCHANGED <<df, start_video_id, files, ids_to_transcribe, i, st, attempts,
                   cleanups, files0, run, cvars>>

\* line 106 stands after the with/try block of lines 95-103: an error the
\* downloader raises in extract_info is caught by nothing and ends the script
ExtractInfoFails ==
    /\ pc = "extract"
    /\ \E e \in DownloaderErrors : pc' = e
    /\ UNCHANGED <<df, start_video_id, files, ids_to_transcribe, i, file_path,
                   st, attempts, cleanups, files0, run, cvars>>

\* get_OpenAI_transcript, lines 110-123: transcribe and write the text file
Transcribe ==
    /\ pc = "transcribe"
    /\ \E raw \in RawTexts :
        LET text == Strip(Replace(raw, "\n", " "))
            name == Replace(file_path, ".mp3", ".txt")
        IN files' = WriteFile(files, name, text)
    /\ st' = [st EXCEPT ![i] = "transcribed"]
    /\ i' = i + 1
    /\ pc' = "item"
    /\ file_path' = ""
    /\ UNCHANGED <<df, start_video_id, ids_to_transcribe, attempts, cleanups,
                   files0, run, cvars>>

\* delete_mp3_files(directory): the files os.remove is called on
mp3_files(fs) == {file \in DOMAIN fs : EndsWith(file, ".mp3")}

\* __main__, lines 189-191, after the loop
Cleanup ==
    /\ pc = "item"
    /\ i > Len(ids_to_transcribe)
    /\ files' = RemoveFiles(files, mp3_files(files))
    /\ cleanups' = cleanups + 1
    /\ pc' = "done"
    /\ UNCHANGED <<df, start_video_id, ids_to_transcribe, i, file_path, st,
                   attempts, files0, run, cvars>>

\* external process termination, the only cancellation there is, at any
\* point but inside ydl.download
Interrupt ==
    /\ pc \in Running \ {"download"}
    /\ pc' = "killed"
    /\ UNCHANGED <<df, start_video_id, files, ids_to_transcribe, i, file_path,
                   st, attempts, cleanups, files0, run, cvars>>

\* external process termination while ydl.download is running
InterruptDownload ==
    /\ pc = "download"
    /\ \E left \in PartialDownloads(ids_to_transcribe[i]) :
        files' = IF left = <<>> THEN files ELSE WriteFile(files, left[1], "audio")
    /\ pc' = "killed"
    /\ UNCHANGED <<df, start_video_id, ids_to_transcribe, i, file_path,
                   st, attempts, cleanups, files0, run, cvars>>

\* the script is started again on the same table and working directory
Rerun ==
    /\ pc \in Ended \cup {"killed"}
    /\ run < MaxRuns
    /\ run' = run + 1
    /\ pc' = "start"
    /\ ids_to_transcribe' = <<>>
    /\ i' = 1
    /\ file_path' = ""
    /\ st' = <<>>
    /\ attempts' = <<>>
    /\ cleanups' = 0
    /\ files0' = files
    /\ UNCHANGED <<df, start_video_id, files, cvars>>

TNext ==
    \/ Resolve
    \/ SkipAlreadyDone
    \/ StartDownload
    \/ DownloadOk
    \/ DownloadFails
    \/ PrepareFilename
    \/ ExtractInfoFails
    \/ Transcribe
    \/ Cleanup
    \/ Interrupt
    \/ InterruptDownload
    \/ Rerun

----------------------------------------------------------------------------
\* The Metadata Collector: 1-youtube_video_info_extractor.py

LongUrl == "https://www.youtube.com/watch?v=k"
LongUrlTracked == "https://www.youtube.com/watch?v=k&t=1"
ShortUrl == "https://youtu.be/k?si=x"
OtherUrl == "https://example.com/k"

\* rows csv.reader yields for the input file: a blank line, or one URL field
InputRowKinds == {<<>>, <<LongUrl>>, <<LongUrlTracked>>, <<ShortUrl>>, <<OtherUrl>>}
InputFiles == SeqsUpTo(InputRowKinds, MaxUrls)

fieldnames ==
    <<"Number", "Video ID", "URL", "Video Title", "Date Published", "Duration",
      "Duration (sec)">>

\* s[a-1:b], the characters of s from place a to place b that s has
Slice(s, a, b) ==
    IF a > Len(s) \/ b < a THEN "" ELSE SubSeq(s, a, IF b > Len(s) THEN Len(s) ELSE b)

\* the k-th character of s, "" when s has none
Ch(s, k) == Slice(s, k, k)

DecimalDigits == "0123456789"
IsDigit(c) == \E k \in 1..10 : Ch(DecimalDigits, k) = c
DigitValue(c) == (CHOOSE k \in 1..10 : Ch(DecimalDigits, k) = c) - 1
AllDigits(s) == \A k \in 1..Len(s) : IsDigit(Ch(s, k))

\* str(n), as an f-string and csv.DictWriter write a number
RECURSIVE str(_)
str(n) ==
    IF n < 0 THEN "-" \o str(0 - n)
    ELSE IF n < 10 THEN Ch(DecimalDigits, n + 1)
    ELSE str(n \div 10) \o Ch(DecimalDigits, (n % 10) + 1)

\* f"{n:02}"
Pad2(n) == IF Len(str(n)) < 2 THEN "0" \o str(n) ELSE str(n)

\* the digits of an int() literal after its sign: digits, with single
\* underscores between them
IsIntBody(b) ==
    /\ Len(b) > 0
    /\ \A k \in 1..Len(b) : IsDigit(Ch(b, k)) \/ Ch(b, k) = "_"
    /\ Ch(b, 1) # "_"
    /\ Ch(b, Len(b)) # "_"
    /\ \A k \in 1..(Len(b) - 1) : ~(Ch(b, k) = "_" /\ Ch(b, k + 1) = "_")

RECURSIVE IntBodyValue(_, _)
IntBodyValue(b, acc) ==
    IF Len(b) = 0 THEN acc
    ELSE IntBodyValue(SubSeq(b, 2, Len(b)),
            IF Ch(b, 1) = "_" THEN acc ELSE 10 * acc + DigitValue(Ch(b, 1)))

\* the literal without its sign
Unsigned(t) == IF Len(t) > 0 /\ Ch(t, 1) \in {"+", "-"} THEN SubSeq(t, 2, Len(t)) ELSE t

\* the white space int() allows around a literal: that of str.strip but for
\* the separators \x1c-\x1f
IntWhitespace == Whitespace \ {"", "", "", ""}

RECURSIVE StripInt(_)
StripInt(s) ==
    IF Len(s) = 0 THEN s
    ELSE IF SubSeq(s, 1, 1) \in IntWhitespace THEN StripInt(SubSeq(s, 2, Len(s)))
    ELSE IF SubSeq(s, Len(s), Len(s)) \in IntWhitespace
         THEN StripInt(SubSeq(s, 1, Len(s) - 1))
         ELSE s

\* int(s) raises ValueError unless IsInt(s)
IsInt(s) == IsIntBody(Unsigned(StripInt(s)))
int(s) ==
    LET t == StripInt(s)
        v == IntBodyValue(Unsigned(t), 0)
    IN IF Ch(t, 1) = "-" THEN 0 - v ELSE v

IsLeap(y) == (y % 4 = 0 /\ y % 100 # 0) \/ y % 400 = 0
DaysIn(y, m) ==
    IF m = 2 THEN (IF IsLeap(y) THEN 29 ELSE 28)
    ELSE IF m \in {4, 6, 9, 11} THEN 30 ELSE 31

\* the place of the first character of s that is in cs, 0 when there is none
FirstOf(s, cs) ==
    IF \E k \in 1..Len(s) : Ch(s, k) \in cs
    THEN CHOOSE k \in 1..Len(s) :
            /\ Ch(s, k) \in cs
            /\ \A j \in 1..(k - 1) : Ch(s, j) \notin cs
    ELSE 0

\* s before and after place k
Before(s, k) == Slice(s, 1, k - 1)
After(s, k) == Slice(s, k + 1, Len(s))

\* one or two digits
IsField(f) == Len(f) \in {1, 2} /\ AllDigits(f)

\* the texts the directives of strptime match: %m is 1..12, %d is 1..31 or a
\* space and a digit, %H is 0..23, %M is 0..59, %S is 0..61
IsMonthText(f) == IsField(f) /\ int(f) \in 1..12
IsDayText(f) ==
    \/ IsField(f) /\ int(f) \in 1..31
    \/ Len(f) = 2 /\ Ch(f, 1) = " " /\ IsDigit(Ch(f, 2)) /\ Ch(f, 2) # "0"
IsHourText(f) == IsField(f) /\ int(f) <= 23
IsMinuteText(f) == IsField(f) /\ int(f) <= 59
IsSecondText(f) == IsField(f) /\ int(f) <= 61

\* two digits, the first of them 0..5
IsSixtieth(f) == Len(f) = 2 /\ AllDigits(f) /\ int(f) <= 59

\* the seconds of a UTC offset and their fraction of one to six digits
IsOffsetSeconds(f) ==
    /\ IsSixtieth(Slice(f, 1, 2))
    /\ Len(f) > 2 =>
        /\ Ch(f, 3) = "."
        /\ Len(f) \in 4..9
        /\ AllDigits(Slice(f, 4, Len(f)))

\* the text %z matches and converts: Z, or a sign, two digits of hours below
\* 24 and two of minutes, then seconds if any, with colons between all of them
\* or none of them
IsUtcOffset(z) ==
    \/ z = "Z"
    \/ /\ Len(z) >= 5
       /\ Ch(z, 1) \in {"+", "-"}
       /\ AllDigits(Slice(z, 2, 3))
       /\ int(Slice(z, 2, 3)) <= 23
       /\ IF Ch(z, 4) = ":"
          THEN /\ IsSixtieth(Slice(z, 5, 6))
               /\ Len(z) > 6 =>
                    /\ Ch(z, 7) = ":"
                    /\ IsOffsetSeconds(Slice(z, 8, Len(z)))
          ELSE /\ IsSixtieth(Slice(z, 4, 5))
               /\ Len(z) > 5 => IsOffsetSeconds(Slice(z, 6, Len(z)))

\* datetime.strptime(s, "%Y-%m-%dT%H:%M:%S%z"): the date it reads, or the
\* ValueError it raises when s does not match the format or names no date
strptime(s) ==
    LET afterYear == Slice(s, 6, Len(s))
        p1 == FirstOf(afterYear, {"-"})
        month == Before(afterYear, p1)
        afterMonth == After(afterYear, p1)
        p2 == FirstOf(afterMonth, {"T", "t"})
        day == Before(afterMonth, p2)
        afterDay == After(afterMonth, p2)
        p3 == FirstOf(afterDay, {":"})
        hour == Before(afterDay, p3)
        afterHour == After(afterDay, p3)
        p4 == FirstOf(afterHour, {":"})
        minute == Before(afterHour, p4)
        afterMinute == After(afterHour, p4)
        p5 == FirstOf(afterMinute, {"+", "-", "Z"})
        second == Before(afterMinute, p5)
        offset == Slice(afterMinute, p5, Len(afterMinute))
        y == int(Slice(s, 1, 4))
        m == int(month)
        d == int(day)
    IN IF /\ Len(s) >= 5 /\ AllDigits(Slice(s, 1, 4)) /\ Ch(s, 5) = "-"
          /\ p1 > 0 /\ IsMonthText(month)
          /\ p2 > 0 /\ IsDayText(day)
          /\ p3 > 0 /\ IsHourText(hour)
          /\ p4 > 0 /\ IsMinuteText(minute)
          /\ p5 > 0 /\ IsSecondText(second) /\ int(second) <= 59
          /\ IsUtcOffset(offset)
          /\ y >= 1
          /\ d <= DaysIn(y, m)
       THEN [raised |-> "", year |-> y, month |-> m, day |-> d]
       ELSE [raised |-> "ValueError", year |-> 0, month |-> 0, day |-> 0]

\* .strftime("%d-%m-%Y")
strftime(date) == Pad2(date.day) \o "-" \o Pad2(date.month) \o "-" \o str(date.year)

\* The result of an extractor or of get_video_info is a record: raised is the
\* exception ("" when it returns), value is <<>> for None and <<v>> for v.
\* A meta tag of the page is <<>> when soup.find gives None, else <<content>>.
Returns(v) == [raised |-> "", value |-> <<v>>]
ReturnsNone == [raised |-> "", value |-> <<>>]
Raises(e) == [raised |-> e, value |-> <<>>]

\* get_date_published(soup)
get_date_published(meta) ==
    IF meta = <<>> THEN ReturnsNone
    ELSE IF strptime(meta[1]).raised = "" THEN Returns(strftime(strptime(meta[1])))
    ELSE Raises("ValueError")

\* get_title(soup), get_video_ID(soup)
get_title(meta) == IF meta = <<>> THEN ReturnsNone ELSE Returns(meta[1])
get_video_ID(meta) == IF meta = <<>> THEN ReturnsNone ELSE Returns(meta[1])

\* get_duration(soup): int() of the text between "PT" and the first "M", then
\* of the text between that "M" and the next "S"
get_duration(meta) ==
    IF meta = <<>> THEN ReturnsNone
    ELSE LET duration_str == meta[1]
             first == SplitFirst(duration_str, "M")
             mins == SubSeq(first, 3, Len(first))
             after == SubSeq(duration_str, Find(duration_str, "M") + 1, Len(duration_str))
             secs == SplitFirst(SplitFirst(after, "M"), "S")
         IN IF ~IsInt(mins) THEN Raises("ValueError")
            ELSE IF Find(duration_str, "M") = 0 THEN Raises("IndexError")
            ELSE IF ~IsInt(secs) THEN Raises("ValueError")
            ELSE LET hours == int(mins) \div 60
                     minutes == int(mins) % 60
                     seconds == int(secs)
                 IN Returns(<<IF hours > 0
                              THEN str(hours) \o ":" \o Pad2(minutes) \o ":" \o Pad2(seconds)
                              ELSE str(minutes) \o ":" \o Pad2(seconds),
                              hours * 3600 + minutes * 60 + seconds>>)

\* what requests.get answers for a video URL: a request error, or a page
\* with its four meta tags
GoodPage ==
    [status |-> "ok", identifier |-> <<"k">>, name |-> <<"T">>,
     datePublished |-> <<"2024-01-02T03:04:05-08:00">>, duration |-> <<"PT62M3S">>]
Pages ==
    { GoodPage,
      [GoodPage EXCEPT !.name = <<>>],
      [GoodPage EXCEPT !.datePublished = <<"2024-01-02">>],
      [GoodPage EXCEPT !.duration = <<"PT1H2M3S">>],
      [GoodPage EXCEPT !.duration = <<"PT9S">>],
      [GoodPage EXCEPT !.status = "RequestException"] }

convert_short_youtube_url(short_url) ==
    IF Contains(short_url, "youtu.be")
    THEN "https://www.youtube.com/watch?v="
            \o SplitFirst(SplitLast(short_url, "youtu.be/"), "?")
    ELSE short_url

clean_url(url) == Strip(SplitFirst(convert_short_youtube_url(url), "&"))

is_valid_youtube_url(url) ==
    Contains(url, "youtube.com/watch") \/ Contains(url, "youtu.be")

\* read_urls_from_csv: the first field of every non-empty row that
\* is_valid_youtube_url accepts
RECURSIVE read_urls_from_csv(_)
read_urls_from_csv(rows) ==
    IF rows = <<>> THEN <<>>
    ELSE LET row == Head(rows)
             rest == read_urls_from_csv(Tail(rows))
         IN IF row # <<>> /\ is_valid_youtube_url(row[1])
            THEN <<row[1]>> \o rest
            ELSE rest

\* get_video_info, lines 61-62: the URL check that raises ValueError
InvalidVideoUrl(url) == ~Contains(url, "youtube.com/watch")

InvalidUrlError == "ValueError: Invalid YouTube video URL."

\* a value all([...]) of line 78 counts as true
Truthy(r) == r.value # <<>> /\ r.value[1] # ""

\* get_video_info(url) when requests.get answers page: the dictionary of the
\* page's fields, None, or the exception that leaves the function: ValueError
\* is re-raised as it is (lines 89-90), a request error and any other
\* exception become Exception (lines 91-94)
get_video_info(url, page) ==
    IF InvalidVideoUrl(url) THEN Raises(InvalidUrlError)
    ELSE IF page.status = "RequestException" THEN Raises("Exception")
    ELSE LET video_ID == get_video_ID(page.identifier)
             video_title == get_title(page.name)
             date_published == get_date_published(page.datePublished)
             duration == get_duration(page.duration)
         IN IF date_published.raised # ""
            THEN Raises(IF date_published.raised = "ValueError"
                        THEN "ValueError" ELSE "Exception")
            ELSE IF duration.raised # ""
            THEN Raises(IF duration.raised = "ValueError"
                        THEN "ValueError" ELSE "Exception")
            ELSE IF /\ Truthy(video_title) /\ Truthy(video_ID)
                    /\ Truthy(date_published) /\ duration.value # <<>>
            THEN Returns([VideoID |-> video_ID.value[1],
                          VideoTitle |-> video_title.value[1],
                          DatePublished |-> date_published.value[1],
                          Duration |-> duration.value[1][1],
                          DurationSec |-> duration.value[1][2]])
            ELSE ReturnsNone

\* csvfile.tell() of a file opened in append mode: the size of the file,
\* counted here in rows, so 0 exactly when nothing was ever written
tellAlwaysZero(f) == 0
tell(f) == Len(f)

\* the row csv.DictWriter writes for video_info with its 'URL' and 'Number'
\* set at lines 145-149, in the order of fieldnames
RecordRow(n, url, video_info) ==
    <<str(n), video_info.VideoID, clean_url(url), video_info.VideoTitle,
      video_info.DatePublished, video_info.Duration, str(video_info.DurationSec)>>

\* the exceptions that end a run of the Collector
CollectorErrors == {InvalidUrlError, "ValueError", "Exception"}

CInit ==
    /\ cpc = "idle"
    /\ input_rows = <<>>
    /\ urls = <<>>
    /\ number = 1
    /\ video_info_list = <<>>
    /\ csv = <<>>
    /\ crun = 0

\* scrape_and_write_video_info, line 133
CStart ==
    /\ cpc \in {"idle", "done"} \cup CollectorErrors
    /\ crun < MaxCollectorRuns
    /\ crun' = crun + 1
    /\ \E f \in InputFiles :
        /\ input_rows' = f
        /\ urls' = read_urls_from_csv(f)
    /\ number' = 1
    /\ video_info_list' = <<>>
    /\ cpc' = "scrape"
    /\ UNCHANGED <<csv, tvars>>

\* one iteration of the loop of lines 141-156
CScrape ==
    /\ cpc = "scrape"
    /\ number <= Len(urls)
    /\ \E page \in Pages :
        LET url == urls[number]
            video_info == get_video_info(url, page)
        IN IF video_info.raised # ""
           THEN /\ cpc' = video_info.raised
                /\ UNCHANGED <<number, video_info_list>>
           ELSE /\ video_info_list' =
                      IF video_info.value # <<>>
                      THEN Append(video_info_list,
                                  RecordRow(number, url, video_info.value[1]))
                      ELSE video_info_list
                /\ number' = number + 1
                /\ UNCHANGED cpc
    /\ UNCHANGED <<input_rows, urls, csv, crun, tvars>>

\* write_video_info_to_csv, called at line 159 after the loop
CWrite ==
    /\ cpc = "scrape"
    /\ number > Len(urls)
    /\ csv' = csv \o (IF tell(csv) = 0 THEN <<fieldnames>> ELSE <<>>)
                  \o video_info_list
    /\ cpc' = "done"
    /\ UNCHANGED <<input_rows, urls, number, video_info_list, crun, tvars>>

CNext ==
    \/ CStart
    \/ CScrape
    \/ CWrite

\* the Transcriber at rest while the Collector is studied, and conversely
TIdle ==
    /\ df = [columns |-> AllColumns, vid |-> <<>>]
    /\ start_video_id = ""
    /\ files = <<>>
    /\ pc = "start"
    /\ ids_to_transcribe = <<>>
    /\ i = 1
    /\ file_path = ""
    /\ st = <<>>
    /\ attempts = <<>>
    /\ cleanups = 0
    /\ files0 = <<>>
    /\ run = 1

Init == TInit /\ CInit
CollectorInit == TIdle /\ CInit

\* runs of the Batch Transcriber on one table and one working directory
Spec == Init /\ [][TNext]_vars

\* runs of the Metadata Collector on one output file
CollectorSpec == CollectorInit /\ [][CNext]_vars

----------------------------------------------------------------------------
\* Properties

IsPresent(v) == v # NaN
NonMissing(rows) == SelectSeq(rows, IsPresent)

\* x occurs in the file name f, stated without Contains
OccursIn(x, f) ==
    \E a \in 0..Len(f), b \in 0..Len(f) : a <= b /\ SubSeq(f, a + 1, b) = x

Terminal == {"already-done", "download-failed", "transcribed"}

Resolved == pc \in {"item", "download", "extract", "transcribe", "done"}

HasIdColumn == "Video ID" \in df.columns

\* C1. Resume correctness: when the table has an identifier column, the list
\* videos_to_transcribe returns is, with an empty start_video_id, the
\* non-missing identifiers of all rows in table order, and, with a
\* start_video_id whose first occurrence is row K, the non-missing identifiers
\* of rows K..N in table order and nothing from a row before K.
ResumeCorrect ==
    (Resolved /\ HasIdColumn) =>
        /\ start_video_id = "" => ids_to_transcribe = NonMissing(df.vid)
        /\ \A K \in 1..Len(df.vid) :
              ( /\ IsPresent(df.vid[K])
                /\ df.vid[K] = start_video_id
                /\ \A J \in 1..(K - 1) : df.vid[J] # start_video_id )
              => ids_to_transcribe = NonMissing(SubSeq(df.vid, K, Len(df.vid)))

\* a resumed run: the start identifier first occurs after row 1, the rows
\* before it hold identifiers, and the list was resolved
ResumeWitness ==
    /\ pc = "item"
    /\ HasIdColumn
    /\ start_video_id # ""
    /\ \E K \in 2..Len(df.vid) :
          /\ df.vid[K] = start_video_id
          /\ \A J \in 1..(K - 1) : IsPresent(df.vid[J]) /\ df.vid[J] # start_video_id
          /\ K < Len(df.vid)
    /\ Len(ids_to_transcribe) >= 1

\* C2. Idempotency: a call of get_OpenAI_transcript for an identifier that
\* occurs in some file name of the working directory returns at once: no
\* download is attempted, the item ends already-done, and the files of the
\* working directory and their contents stay as they were.
SkipLeavesFilesUntouched ==
    [][ ( /\ InLoop
          /\ \E f \in DOMAIN files : OccursIn(ids_to_transcribe[i], f)
          /\ pc' # "killed" )
        => ( /\ files' = files
             /\ attempts' = attempts
             /\ st' = [st EXCEPT ![i] = "already-done"]
             /\ pc' = "item"
             /\ i' = i + 1 ) ]_vars

\* an item was skipped because a transcript of an earlier run names it
SkipWitness ==
    /\ \E k \in 1..Len(st) :
          /\ st[k] = "already-done"
          /\ ids_to_transcribe[k] = "q"
    /\ "T q.txt" \in DOMAIN files
    /\ files["T q.txt"] = "old"

NoMp3Left == \A f \in DOMAIN files : ~EndsWith(f, ".mp3")

\* C3. End-of-batch cleanup: every run that ends has run the cleanup exactly
\* once and leaves no .mp3 file, and the cleanup never runs while the run is
\* still resolving or processing items.
CleanupOnceAtEnd ==
    /\ pc \in Ended => (cleanups = 1 /\ NoMp3Left)
    /\ pc \in Running => cleanups = 0

\* C4. Acquisition failures do not abort the batch: an item whose download
\* failed with an access-restriction error or a generic download error is
\* download-failed after its one attempt, and when the run has ended every
\* identifier after it in the resolved list has been processed.
AcquisitionFailuresDoNotAbort ==
    \A k \in 1..Len(st) :
        st[k] = "download-failed" =>
            /\ attempts[k] = 1
            /\ pc \in Ended => \A j \in (k + 1)..Len(st) : st[j] \in Terminal

\* C5. A table without the 'Video ID' column is fatal: no item is processed
\* and no later step of the run is carried out, so nothing is downloaded or
\* transcribed, no file of the working directory is deleted, and the run does
\* not end as a normal run.
MissingColumnFatal ==
    ~HasIdColumn =>
        /\ st = <<>>
        /\ cleanups = 0
        /\ files = files0
        /\ pc # "done"

SumAttempts(x) ==
    LET P == {k \in 1..Len(attempts) : ids_to_transcribe[k] = x}
        RECURSIVE Sum(_)
        Sum(S) == IF S = {} THEN 0
                  ELSE LET k == CHOOSE k \in S : TRUE
                       IN attempts[k] + Sum(S \ {k})
    IN Sum(P)

\* C7 as stated: within one run the download of an identifier is attempted
\* at most once, also when the table lists it in several rows.
OneAttemptPerIdentifier == \A x \in VideoIDs : SumAttempts(x) <= 1

AllowedTransitions ==
    { <<"pending", "already-done">>, <<"pending", "download-failed">>,
      <<"pending", "downloaded">>, <<"downloaded", "transcribed">> }

SinglePathStep ==
    run' = run =>
        \A k \in 1..Len(st) :
            (Len(st') = Len(st) /\ st'[k] # st[k])
                => <<st[k], st'[k]>> \in AllowedTransitions

AttemptsMatchState ==
    \A k \in 1..Len(st) :
        /\ attempts[k] <= 1
        /\ st[k] \in {"download-failed", "downloaded", "transcribed"} => attempts[k] = 1
        /\ st[k] = "already-done" => attempts[k] = 0

OneSuccessPerIdentifier ==
    \A x \in VideoIDs :
        Cardinality({k \in 1..Len(st) :
            ids_to_transcribe[k] = x /\ st[k] \in {"downloaded", "transcribed"}}) <= 1

\* C7, amended. Single attempt per item: every position of the resolved list
\* follows pending -> already-done, pending -> download-failed or
\* pending -> downloaded -> transcribed; its download is attempted at most
\* once; and an identifier listed in several rows is downloaded successfully
\* at most once per run (a later row attempts it again only when every earlier
\* attempt of it failed).
SingleAttemptPerItem ==
    [][SinglePathStep]_vars /\ [](AttemptsMatchState /\ OneSuccessPerIdentifier)

\* the same identifier in two rows: downloaded and transcribed for the
\* first, skipped for the second
SingleAttemptWitness ==
    /\ Len(st) >= 2
    /\ ids_to_transcribe[1] = ids_to_transcribe[2]
    /\ st[1] = "transcribed"
    /\ st[2] = "already-done"

\* f is the transcript get_OpenAI_transcript writes for identifier x
IsTranscriptOf(f, x) == EndsWith(f, " " \o x \o ".txt")

\* C8. Interrupted runs are recoverable: in every run, also one that follows
\* an interrupted run on the same table and working directory, an identifier
\* is skipped as already done only if a transcript file for it exists.
SkippedOnlyWithTranscript ==
    \A k \in 1..Len(st) :
        st[k] = "already-done" =>
            \E f \in DOMAIN files : IsTranscriptOf(f, ids_to_transcribe[k])

\* C10. Identifier resolution is total: with a 'Video ID' column,
\* videos_to_transcribe returns a list for every start_video_id, so the run
\* never ends in the resolution step.
ResolutionTotal == HasIdColumn => pc # "IndexError"

\* C9. The two URL checks agree: no URL that read_urls_from_csv accepted makes
\* get_video_info raise the 'Invalid YouTube video URL' ValueError.
UrlChecksAgree == cpc # InvalidUrlError

\* a is a prefix of b
IsPrefix(a, b) == Len(a) <= Len(b) /\ SubSeq(b, 1, Len(a)) = a

SingleHeader ==
    csv # <<>> =>
        /\ csv[1] = fieldnames
        /\ \A j \in 2..Len(csv) : csv[j] # fieldnames

AppendOnlyStep ==
    csv' # csv =>
        /\ IsPrefix(csv, csv')
        /\ SubSeq(csv', Len(csv) + 1, Len(csv')) =
              (IF csv = <<>> THEN <<fieldnames>> ELSE <<>>) \o video_info_list

\* C6. The interchange table is append-only with a single header: a run
\* changes the file only by appending, it appends its own records in order,
\* preceded by the header exactly when the file was empty; so a written file
\* is one header row followed by the records of the runs in run order.
AppendOnlySingleHeader == [][AppendOnlyStep]_vars /\ []SingleHeader

\* two runs have each written a record numbered 1
AppendWitness ==
    /\ cpc = "done"
    /\ crun = 2
    /\ \E j \in 2..Len(csv), k \in 2..Len(csv) :
          j < k /\ csv[j][1] = "1" /\ csv[k][1] = "1"

====
